---- MODULE Spec2Model ----
(***************************************************************************)
(* LCFRS grammar induction (inducer.py): Grammar.__init__ / Grammar.induce *)
(* as a state machine, with Node, Predicate and Rule as operators.         *)
(* Python strings are sequences of one-character strings, so that          *)
(* str(), the substring test and str.replace are computed, not assumed.    *)
(***************************************************************************)
EXTENDS Integers, Sequences, FiniteSets, TLC

VARIABLES
  rules,     \* Grammar.rules: list of Rule objects
  ntrees,    \* len(trees) in Grammar.__init__
  count,     \* count in Grammar.__init__: trees fully induced
  tree,      \* the tree handed to induce (a list of split lines)
  again,     \* the tree handed to induce is the one induced just before
  pc,        \* position of the program
  leaves,    \* induce: leaves (list of Node)
  nodes,     \* induce: nodes.values() in dictionary order (list of Node)
  nodesval,  \* induce: nodesval (list of references into nodes)
  nodes2,    \* induce: nodes2 (list of references into nodes)
  idx,       \* position of the running for-loop
  error,     \* the key of the KeyError that ended the program, if any
  self,      \* the Node handed to Node.findArgs / Rule.__init__ on its own
  ret        \* what those calls returned

vars == <<rules, ntrees, count, tree, again, pc, leaves, nodes, nodesval,
          nodes2, idx, error, self, ret>>

(***************************************************************************)
(* Bounds of the model.                                                    *)
(***************************************************************************)
MaxTrees == 2
MaxLeaves == 3
MaxInternal == 2
MaxPos == 11
MaxDaughters == 2

(***************************************************************************)
(* Strings.                                                                *)
(***************************************************************************)
Digits == <<"0", "1", "2", "3", "4", "5", "6", "7", "8", "9">>

RECURSIVE str(_)
str(n) ==
  IF n < 10 THEN <<Digits[n + 1]>>
  ELSE str(n \div 10) \o <<Digits[(n % 10) + 1]>>

\* Python: p in s
isIn(p, s) ==
  \E k \in 0..(Len(s) - Len(p)) : SubSeq(s, k + 1, k + Len(p)) = p

\* Python: s.replace(old, new), old nonempty: leftmost non-overlapping matches
RECURSIVE replace(_, _, _)
replace(s, old, new) ==
  IF Len(s) < Len(old) THEN s
  ELSE IF SubSeq(s, 1, Len(old)) = old
       THEN new \o replace(SubSeq(s, Len(old) + 1, Len(s)), old, new)
       ELSE <<Head(s)>> \o replace(Tail(s), old, new)

RECURSIVE concat(_)
concat(ss) == IF ss = <<>> THEN <<>> ELSE Head(ss) \o concat(Tail(ss))

(***************************************************************************)
(* Node                                                                    *)
(***************************************************************************)
Node(l) ==
  [id |-> l.id, label |-> l.label, mother |-> l.mother,
   strID |-> <<>>, daughters |-> <<>>]

\* findArgs with the test "strID[i] != strID[i-1]"
isGap_NotEqual(strID, i) == i # 1 /\ strID[i] # strID[i - 1]

\* the gap test of findArgs
isGap(strID, i) == i # 1 /\ strID[i] - 1 # strID[i - 1]

RECURSIVE findArgsLoop(_, _, _, _)
findArgsLoop(strID, i, args, arg) ==
  IF i > Len(strID) THEN Append(args, arg)
  ELSE LET gap == isGap(strID, i)
       IN findArgsLoop(strID, i + 1,
                       IF gap THEN Append(args, arg) ELSE args,
                       (IF gap THEN <<>> ELSE arg) \o <<"Y", "_">> \o str(strID[i]))

findArgs(strID) == findArgsLoop(strID, 1, <<>>, <<>>)

(***************************************************************************)
(* Predicate                                                               *)
(***************************************************************************)
Predicate(name, args) == [name |-> name, args |-> args]

RECURSIVE predArgsForm(_, _)
predArgsForm(args, i) ==
  IF i > Len(args) THEN <<>>
  ELSE args[i]
       \o (IF args[i] = args[Len(args)] THEN <<")">> ELSE <<",">>)
       \o predArgsForm(args, i + 1)

predMkform(pred) == pred.name \o <<"(">> \o predArgsForm(pred.args, 1)

(***************************************************************************)
(* Rule                                                                    *)
(***************************************************************************)
RECURSIVE rhsForm(_)
rhsForm(rhs) ==
  IF rhs = <<>> THEN <<>> ELSE predMkform(Head(rhs)) \o rhsForm(Tail(rhs))

mkform(lhs, eps, rhs) ==
  predMkform(lhs) \o <<"-", ">">>
  \o (IF eps THEN <<"e", "p", "s">> ELSE rhsForm(rhs))

\* contractAt without the end marker "|": a run at the end of the
\* argument is not replaced
contractAt_NoEndMarker(c, p, i, j) ==
  LET a == c.rhs[p].args[i]
      X == <<"X", "_">> \o str(c.count)
      s1 == replace(c.lhs[j], a \o <<"Y">>, X \o <<"Y">>)
      s2 == replace(s1, a \o <<"X">>, X \o <<"X">>)
  IN [lhs |-> [c.lhs EXCEPT ![j] = s2],
      rhs |-> [c.rhs EXCEPT ![p].args[i] = X],
      count |-> c.count + 1]

\* contractAt replacing the run wherever its text occurs
contractAt_AnyOccurrence(c, p, i, j) ==
  LET a == c.rhs[p].args[i]
      X == <<"X", "_">> \o str(c.count)
  IN [lhs |-> [c.lhs EXCEPT ![j] = replace(c.lhs[j], a, X)],
      rhs |-> [c.rhs EXCEPT ![p].args[i] = X],
      count |-> c.count + 1]

\* The body of "if pred.args[i] in self.lhs.args[j]"; c holds lhs.args,
\* rhs and count.
contractAt(c, p, i, j) ==
  LET a == c.rhs[p].args[i]
      X == <<"X", "_">> \o str(c.count)
      s0 == Append(c.lhs[j], "|")
      s1 == replace(s0, a \o <<"Y">>, X \o <<"Y">>)
      s2 == replace(s1, a \o <<"X">>, X \o <<"X">>)
      s3 == replace(s2, a \o <<"|">>, X \o <<"|">>)
      s4 == SubSeq(s3, 1, Len(s3) - 1)
  IN [lhs |-> [c.lhs EXCEPT ![j] = s4],
      rhs |-> [c.rhs EXCEPT ![p].args[i] = X],
      count |-> c.count + 1]

\* "for j in range(len(self.lhs.args))", from j on, for right-hand-side
\* argument i of predicate p
RECURSIVE contractJ(_, _, _, _)
contractJ(c, p, i, j) ==
  IF j > Len(c.lhs) THEN c
  ELSE IF isIn(c.rhs[p].args[i], c.lhs[j])
       THEN contractJ(contractAt(c, p, i, j), p, i, j + 1)
       ELSE contractJ(c, p, i, j + 1)

RECURSIVE contractI(_, _, _)
contractI(c, p, i) ==
  IF i > Len(c.rhs[p].args) THEN c
  ELSE contractI(contractJ(c, p, i, 1), p, i + 1)

RECURSIVE contractP(_, _)
contractP(c, p) ==
  IF p > Len(c.rhs) THEN c ELSE contractP(contractI(c, p, 1), p + 1)

\* Rule.__init__(node); ds are the Node objects of node.daughters, in order.
Rule(node, ds) ==
  IF node.id[1] # "#"
  THEN LET lhs == Predicate(node.label, <<node.id>>)
       IN [lhs |-> lhs, eps |-> TRUE, rhs |-> <<>>,
           form |-> mkform(lhs, TRUE, <<>>)]
  ELSE LET rhs0 == [d \in 1..Len(ds) |->
                      Predicate(ds[d].label, findArgs(ds[d].strID))]
           c == contractP([lhs |-> findArgs(node.strID), rhs |-> rhs0,
                           count |-> 0], 1)
           lhs == Predicate(node.label, c.lhs)
       IN [lhs |-> lhs, eps |-> FALSE, rhs |-> c.rhs,
           form |-> mkform(lhs, FALSE, c.rhs)]

(***************************************************************************)
(* Grammar.induce, helpers.  A daughter is a reference to a Node object:   *)
(* leaf TRUE and an index into leaves, or leaf FALSE and an index into     *)
(* nodes.values().                                                         *)
(***************************************************************************)
Ref(isLeaf, ix) == [leaf |-> isLeaf, ix |-> ix]

deref(r, ls, ns) == IF r.leaf THEN ls[r.ix] ELSE ns[r.ix]

isLeafLine(l) == l.id[1] # "#"

isNodeLine(l) == l.id[1] = "#"

\* nodes[key]: the position of the node stored under key, 0 for a KeyError
lookup(ns, key) ==
  IF \E n \in 1..Len(ns) : Tail(ns[n].id) = key
  THEN CHOOSE n \in 1..Len(ns) : Tail(ns[n].id) = key
  ELSE 0

\* Python: l.remove(x)
remove(l, x) ==
  LET k == CHOOSE k \in 1..Len(l) : l[k] = x /\ \A m \in 1..(k - 1) : l[m] # x
  IN SubSeq(l, 1, k - 1) \o SubSeq(l, k + 1, Len(l))

\* allDaughtersHaveStrID with "return True" inside the loop
allDaughtersHaveStrID_FirstOnly(node, ls, ns) ==
  node.daughters = <<>> \/ deref(node.daughters[1], ls, ns).strID # <<>>

allDaughtersHaveStrID(node, ls, ns) ==
  \A d \in 1..Len(node.daughters) : deref(node.daughters[d], ls, ns).strID # <<>>

\* getStrID without strID.sort()
getStrID_NoSort(node, ls, ns) ==
  IF Len(node.daughters) = 1
  THEN deref(node.daughters[1], ls, ns).strID
  ELSE concat([d \in 1..Len(node.daughters) |->
                 deref(node.daughters[d], ls, ns).strID])

getStrID(node, ls, ns) ==
  IF Len(node.daughters) = 1
  THEN deref(node.daughters[1], ls, ns).strID
  ELSE SortSeq(concat([d \in 1..Len(node.daughters) |->
                         deref(node.daughters[d], ls, ns).strID]),
               LAMBDA x, y : x < y)

\* for s in range(len(leaves)), from s on; st holds leaves, nodes and the
\* key of a KeyError (err), which ends the loop.
RECURSIVE linkLeaves(_, _)
linkLeaves(st, s) ==
  IF s > Len(st.leaves) THEN st
  ELSE LET ls == [st.leaves EXCEPT ![s].strID = <<s - 1>>]
           m == lookup(st.nodes, ls[s].mother)
       IN IF m = 0
          THEN [leaves |-> ls, nodes |-> st.nodes, err |-> <<ls[s].mother>>]
          ELSE linkLeaves(
                 [leaves |-> ls,
                  nodes |-> [st.nodes EXCEPT ![m].daughters =
                               Append(@, Ref(TRUE, s))],
                  err |-> <<>>], s + 1)

\* for node in nodes.values(), from n on
RECURSIVE linkNodes(_, _)
linkNodes(st, n) ==
  IF n > Len(st.nodes) THEN st
  ELSE IF st.nodes[n].mother # <<"0">>
       THEN LET m == lookup(st.nodes, st.nodes[n].mother)
            IN IF m = 0
               THEN [nodes |-> st.nodes, err |-> <<st.nodes[n].mother>>]
               ELSE linkNodes(
                      [nodes |-> [st.nodes EXCEPT ![m].daughters =
                                    Append(@, Ref(FALSE, n))],
                       err |-> <<>>], n + 1)
       ELSE linkNodes(st, n + 1)

\* addRule without the duplicate check
addRule_NoCheck(rs, newrule) == Append(rs, newrule)

\* addRule comparing with the last stored rule only
addRule_LastOnly(rs, newrule) ==
  IF rs = <<>> THEN Append(rs, newrule)
  ELSE IF newrule.form = rs[Len(rs)].form
       THEN rs
       ELSE Append(rs, newrule)

\* the duplicate check of induce: append newrule unless its form is stored
addRule(rs, newrule) ==
  IF rs = <<>> THEN Append(rs, newrule)
  ELSE IF \E k \in 1..Len(rs) : newrule.form = rs[k].form
       THEN rs
       ELSE Append(rs, newrule)

daughterNodes(node, ls, ns) ==
  [d \in 1..Len(node.daughters) |-> deref(node.daughters[d], ls, ns)]

(***************************************************************************)
(* The trees of the treebank: lines already split on tabs, of which the    *)
(* program reads the fields 0 (id or word), 2 (label) and 5 (mother).      *)
(***************************************************************************)
SeqsUpTo(S, n) == UNION {[1..k -> S] : k \in 0..n}

\* the word "a" under any mother id, the word "b" under the mother id 1
LeafLines ==
  [id : {<<"a">>}, label : {<<"D">>}, mother : {str(k) : k \in 0..MaxInternal}]
  \cup [id : {<<"b">>}, label : {<<"D">>}, mother : {<<"1">>}]

NodeLines ==
  [id : {<<"#">> \o str(k) : k \in 1..MaxInternal}, label : {<<"S">>},
   mother : {str(k) : k \in 0..MaxInternal}]

TreeSet ==
  {l \o n : l \in SeqsUpTo(LeafLines, MaxLeaves),
            n \in {x \in SeqsUpTo(NodeLines, MaxInternal) :
                     \A i, j \in 1..Len(x) : x[i].id = x[j].id => i = j}}

NoNode == [id |-> <<>>, label |-> <<>>, strID |-> <<>>, daughters |-> <<>>]

NoRet == [args |-> <<>>, rule |-> <<>>]

(***************************************************************************)
(* Grammar.__init__ and Grammar.induce                                     *)
(***************************************************************************)
Init ==
  /\ rules = <<>>
  /\ ntrees \in 0..MaxTrees
  /\ count = 0
  /\ tree = <<>>
  /\ again = FALSE
  /\ pc = "loop"
  /\ leaves = <<>>
  /\ nodes = <<>>
  /\ nodesval = <<>>
  /\ nodes2 = <<>>
  /\ idx = 0
  /\ error = <<>>
  /\ self = NoNode
  /\ ret = NoRet

\* for tree in trees: self.induce(tree), up to the end of the parsing loop
Induce ==
  /\ pc = "loop"
  /\ count < ntrees
  /\ \E t \in TreeSet :
       /\ tree' = t
       /\ again' = (count > 0 /\ t = tree)
       /\ leaves' = [i \in 1..Len(SelectSeq(t, isLeafLine)) |->
                       Node(SelectSeq(t, isLeafLine)[i])]
       /\ nodes' = [i \in 1..Len(SelectSeq(t, isNodeLine)) |->
                      Node(SelectSeq(t, isNodeLine)[i])]
  /\ nodesval' = <<>>
  /\ nodes2' = <<>>
  /\ idx' = 0
  /\ pc' = "linkleaves"
  /\ UNCHANGED <<rules, ntrees, count, error, self, ret>>

LinkLeaves ==
  /\ pc = "linkleaves"
  /\ LET st == linkLeaves([leaves |-> leaves, nodes |-> nodes, err |-> <<>>], 1)
     IN /\ leaves' = st.leaves
        /\ nodes' = st.nodes
        /\ error' = st.err
        /\ pc' = IF st.err = <<>> THEN "linknodes" ELSE "KeyError"
  /\ UNCHANGED <<rules, ntrees, count, tree, again, nodesval, nodes2, idx, self, ret>>

LinkNodes ==
  /\ pc = "linknodes"
  /\ LET st == linkNodes([nodes |-> nodes, err |-> <<>>], 1)
     IN /\ nodes' = st.nodes
        /\ error' = st.err
        /\ IF st.err = <<>>
           THEN /\ pc' = "scan"
                /\ nodes2' = <<>>
                /\ nodesval' = [n \in 1..Len(nodes) |-> n]
                /\ idx' = 1
           ELSE /\ pc' = "KeyError"
                /\ UNCHANGED <<nodes2, nodesval, idx>>
  /\ UNCHANGED <<rules, ntrees, count, tree, again, leaves, self, ret>>

\* one turn of "for node in nodesval"
ScanNode ==
  /\ pc = "scan"
  /\ idx <= Len(nodesval)
  /\ LET n == nodesval[idx]
     IN IF allDaughtersHaveStrID(nodes[n], leaves, nodes)
        THEN /\ nodes' = [nodes EXCEPT ![n].strID = getStrID(nodes[n], leaves, nodes)]
             /\ nodes2' = Append(nodes2, n)
             /\ nodesval' = remove(nodesval, n)
        ELSE UNCHANGED <<nodes, nodes2, nodesval>>
  /\ idx' = idx + 1
  /\ UNCHANGED <<rules, ntrees, count, tree, again, pc, leaves, error, self, ret>>

\* the for-loop is exhausted: "while nodesval != []"
ScanWhile ==
  /\ pc = "scan"
  /\ idx > Len(nodesval)
  /\ IF nodesval # <<>>
     THEN /\ idx' = 1
          /\ pc' = "scan"
     ELSE /\ idx' = 1
          /\ pc' = "rules"
  /\ UNCHANGED <<rules, ntrees, count, tree, again, leaves, nodes, nodesval,
                 nodes2, error, self, ret>>

\* one turn of "for leaf in leaves"
LeafRule ==
  /\ pc = "rules"
  /\ idx <= Len(leaves)
  /\ rules' = addRule(rules, Rule(leaves[idx], <<>>))
  /\ idx' = idx + 1
  /\ UNCHANGED <<ntrees, count, tree, again, pc, leaves, nodes, nodesval,
                 nodes2, error, self, ret>>

\* one turn of "for node in nodes2"
NodeRule ==
  /\ pc = "rules"
  /\ idx > Len(leaves)
  /\ idx <= Len(leaves) + Len(nodes2)
  /\ LET node == nodes[nodes2[idx - Len(leaves)]]
     IN rules' = addRule(rules, Rule(node, daughterNodes(node, leaves, nodes)))
  /\ idx' = idx + 1
  /\ UNCHANGED <<ntrees, count, tree, again, pc, leaves, nodes, nodesval,
                 nodes2, error, self, ret>>

\* induce returns: count += 1
Return ==
  /\ pc = "rules"
  /\ idx > Len(leaves) + Len(nodes2)
  /\ count' = count + 1
  /\ pc' = "loop"
  /\ leaves' = <<>>
  /\ nodes' = <<>>
  /\ nodes2' = <<>>
  /\ idx' = 0
  /\ UNCHANGED <<rules, ntrees, tree, again, nodesval, error, self, ret>>

\* print("induction complete")
Complete ==
  /\ pc = "loop"
  /\ count = ntrees
  /\ pc' = "complete"
  /\ UNCHANGED <<rules, ntrees, count, tree, again, leaves, nodes, nodesval,
                 nodes2, idx, error, self, ret>>

Next ==
  \/ Induce
  \/ LinkLeaves
  \/ LinkNodes
  \/ ScanNode
  \/ ScanWhile
  \/ LeafRule
  \/ NodeRule
  \/ Return
  \/ Complete

Spec == Init /\ [][Next]_vars

(***************************************************************************)
(* Node.findArgs and Rule.__init__ on their own, on a node whose span is   *)
(* the union of the spans of its daughters.  The positions 0..MaxPos are   *)
(* cut into four stretches, each owned by one daughter or by none.         *)
(***************************************************************************)
RECURSIVE Ascending(_)
Ascending(S) ==
  IF S = {} THEN <<>>
  ELSE LET m == CHOOSE x \in S : \A y \in S : x <= y
       IN <<m>> \o Ascending(S \ {m})

Owner(c1, c2, c3, s) ==
  [p \in 0..MaxPos |->
     IF p < c1 THEN s[1] ELSE IF p < c2 THEN s[2] ELSE IF p < c3 THEN s[3] ELSE s[4]]

Owners ==
  {Owner(c[1], c[2], c[3], s) :
     c \in {x \in (0..(MaxPos + 1)) \X (0..(MaxPos + 1)) \X (0..(MaxPos + 1)) :
              x[1] <= x[2] /\ x[2] <= x[3]},
     s \in [1..4 -> 0..MaxDaughters]}

DaughterOf(o, d) ==
  [id |-> <<"#">> \o str(d + 1), label |-> <<"D">>,
   strID |-> Ascending({p \in 0..MaxPos : o[p] = d}), daughters |-> <<>>]

SelfOf(o) ==
  [id |-> <<"#", "1">>, label |-> <<"S">>,
   strID |-> Ascending({p \in 0..MaxPos : o[p] # 0}),
   daughters |->
     LET present == Ascending({d \in 1..MaxDaughters : \E p \in 0..MaxPos : o[p] = d})
     IN [k \in 1..Len(present) |-> DaughterOf(o, present[k])]]

NodeInputs == {SelfOf(o) : o \in Owners}

RuleInit ==
  /\ rules = <<>>
  /\ ntrees = 0
  /\ count = 0
  /\ tree = <<>>
  /\ again = FALSE
  /\ pc = "call"
  /\ leaves = <<>>
  /\ nodes = <<>>
  /\ nodesval = <<>>
  /\ nodes2 = <<>>
  /\ idx = 0
  /\ error = <<>>
  /\ self \in NodeInputs
  /\ ret = NoRet

CallFindArgs ==
  /\ pc = "call"
  /\ ret' = [ret EXCEPT !.args = findArgs(self.strID)]
  /\ pc' = "args"
  /\ UNCHANGED <<rules, ntrees, count, tree, again, leaves, nodes, nodesval,
                 nodes2, idx, error, self>>

CallRule ==
  /\ pc = "args"
  /\ ret' = [ret EXCEPT !.rule = Rule(self, self.daughters)]
  /\ pc' = "rule"
  /\ UNCHANGED <<rules, ntrees, count, tree, again, leaves, nodes, nodesval,
                 nodes2, idx, error, self>>

RuleNext ==
  \/ CallFindArgs
  \/ CallRule

RuleSpec == RuleInit /\ [][RuleNext]_vars

(***************************************************************************)
(* Reading argument strings back.                                          *)
(***************************************************************************)
\* the token "Y_n" of position n
tok(n) == <<"Y", "_">> \o str(n)

\* the token run of the positions a..b
tokRun(a, b) == concat([k \in 1..(b - a + 1) |-> tok(a + k - 1)])

\* the token string of a list of positions
tokAll(strID) == concat([k \in 1..Len(strID) |-> tok(strID[k])])

\* an argument string cut before every "X" and "Y"
RECURSIVE tokens(_)
tokens(s) ==
  IF s = <<>> THEN <<>>
  ELSE LET stops == {k \in 2..Len(s) : s[k] \in {"X", "Y"}}
           n == IF stops = {} THEN Len(s) + 1
                ELSE CHOOSE k \in stops : \A m \in stops : k <= m
       IN <<SubSeq(s, 1, n - 1)>> \o tokens(SubSeq(s, n, Len(s)))

isDigit(ch) == \E d \in 1..10 : Digits[d] = ch

\* "X_" followed by a number
isVar(s) ==
  /\ Len(s) >= 3
  /\ s[1] = "X"
  /\ s[2] = "_"
  /\ \A k \in 3..Len(s) : isDigit(s[k])

\* the maximal runs a..b of a set of positions, as pairs, in ascending order
Runs(S) ==
  {r \in S \X S : /\ r[1] <= r[2]
                  /\ \A x \in r[1]..r[2] : x \in S
                  /\ (r[1] - 1) \notin S
                  /\ (r[2] + 1) \notin S}

RECURSIVE RunsAscending(_)
RunsAscending(R) ==
  IF R = {} THEN <<>>
  ELSE LET m == CHOOSE r \in R : \A q \in R : r[1] <= q[1]
       IN <<m>> \o RunsAscending(R \ {m})

Range(f) == {f[x] : x \in DOMAIN f}

gaps(strID) == Cardinality({i \in 2..Len(strID) : strID[i] # strID[i - 1] + 1})

runArgs(strID) ==
  LET rs == RunsAscending(Runs(Range(strID)))
  IN [k \in 1..Len(rs) |-> tokRun(rs[k][1], rs[k][2])]

(***************************************************************************)
(* C2                                                                      *)
(***************************************************************************)
ArgsAreRuns ==
  /\ ret.args = runArgs(self.strID)
  /\ concat(ret.args) = tokAll(self.strID)
  /\ Len(ret.args) = gaps(self.strID) + 1

\* C2 as stated: for every ascending duplicate-free span findArgs returns
\* exactly the maximal contiguous runs of the span in ascending order, one
\* argument per run and one token per position; the arguments concatenated
\* are the whole span; there are as many arguments as gaps plus one.
C2_AsStated == pc = "args" => ArgsAreRuns

\* C2 amended: the above for every nonempty span; for the empty span
\* findArgs returns one argument, the empty string, although the span has
\* no run.
C2_FindArgs ==
  pc = "args" =>
    IF self.strID # <<>> THEN ArgsAreRuns
    ELSE ret.args = << <<>> >> /\ runArgs(self.strID) = <<>>

\* findArgs has run on a span with a gap, positions of one and of two digits
C2_Witness ==
  /\ pc = "args"
  /\ Len(ret.args) = 2
  /\ \E i, j \in 1..Len(self.strID) : self.strID[i] < 10 /\ self.strID[j] >= 10

(***************************************************************************)
(* C4                                                                      *)
(***************************************************************************)
\* the arguments of all right-hand-side predicates, in order
rhsArgs(rhs) == concat([p \in 1..Len(rhs) |-> rhs[p].args])

\* the arguments findArgs gives the daughters, in the same order
daughterArgs(ds) == concat([d \in 1..Len(ds) |-> findArgs(ds[d].strID)])

\* all tokens of all left-hand-side arguments
lhsTokens(lhs) == concat([j \in 1..Len(lhs.args) |-> tokens(lhs.args[j])])

\* the left-hand-side argument s with every variable of vs replaced by the
\* string of ts at the same place
substBack(s, vs, ts) ==
  LET t == tokens(s)
  IN concat([k \in 1..Len(t) |->
               IF \E v \in 1..Len(vs) : vs[v] = t[k]
               THEN ts[CHOOSE v \in 1..Len(vs) : vs[v] = t[k]]
               ELSE t[k]])

\* C4: in the rule of an internal node every right-hand-side argument is a
\* variable different from all others of the rule, that variable occurs
\* exactly once in the left-hand-side arguments, and putting the daughters'
\* token runs back for the variables gives the mother's argument components
\* (so no token is taken for another whose number it is a decimal prefix of).
C4_Contraction ==
  pc = "rule" =>
    LET vs == rhsArgs(ret.rule.rhs)
        ts == daughterArgs(self.daughters)
        lt == lhsTokens(ret.rule.lhs)
    IN /\ Len(vs) = Len(ts)
       /\ \A k \in 1..Len(vs) : isVar(vs[k])
       /\ \A k, m \in 1..Len(vs) : vs[k] = vs[m] => k = m
       /\ \A k \in 1..Len(vs) : Cardinality({n \in 1..Len(lt) : lt[n] = vs[k]}) = 1
       /\ Len(ret.rule.lhs.args) = Len(ret.args)
       /\ \A j \in 1..Len(ret.args) :
            substBack(ret.rule.lhs.args[j], vs, ts) = ret.args[j]

\* a rule was built where one daughter is the single position 1 and the
\* mother has the positions 1 and 10 in one argument
C4_Witness ==
  /\ pc = "rule"
  /\ \E d \in 1..Len(self.daughters) : self.daughters[d].strID = <<1>>
  /\ \E j \in 1..Len(ret.args) :
       isIn(tok(1), ret.args[j]) /\ isIn(tok(10), ret.args[j])
  /\ Len(rhsArgs(ret.rule.rhs)) >= 3

(***************************************************************************)
(* C3                                                                      *)
(***************************************************************************)
\* C3: after the contraction loop of the rule of an internal node every
\* left-hand-side argument is a sequence of variables, with no position
\* token Y_n left, and every right-hand-side argument is one variable.
C3_NoRawToken ==
  pc = "rule" =>
    /\ \A j \in 1..Len(ret.rule.lhs.args) :
         LET t == tokens(ret.rule.lhs.args[j])
         IN /\ \A k \in 1..Len(t) : isVar(t[k])
            /\ ~isIn(<<"Y">>, ret.rule.lhs.args[j])
    /\ \A p \in 1..Len(ret.rule.rhs) :
         \A i \in 1..Len(ret.rule.rhs[p].args) : isVar(ret.rule.rhs[p].args[i])

\* a rule was built for a node with two argument components, the last
\* position of a component having two digits, and two daughters
C3_Witness ==
  /\ pc = "rule"
  /\ Len(ret.args) = 2
  /\ Len(self.daughters) = 2
  /\ self.strID[Len(self.strID)] >= 10
  /\ Len(tokens(ret.rule.lhs.args[1])) >= 2

(***************************************************************************)
(* The tree as the input lines give it.                                    *)
(***************************************************************************)
\* the node the mother id of node n names, 0 if none (the root sentinel)
motherOf(n) == lookup(nodes, nodes[n].mother)

\* node n and the nodes above it, following at most k mother ids
RECURSIVE above(_, _)
above(n, k) ==
  IF n = 0 \/ k = 0 THEN {} ELSE {n} \cup above(motherOf(n), k - 1)

\* the positions of the leaves below node n
dominated(n) ==
  {i - 1 : i \in {x \in 1..Len(leaves) :
                    n \in above(lookup(nodes, leaves[x].mother), Len(nodes))}}

\* every internal node has a daughter and no node is above itself
WellFormed ==
  /\ \A n \in 1..Len(nodes) : nodes[n].daughters # <<>>
  /\ \A n \in 1..Len(nodes) : n \notin above(motherOf(n), Len(nodes))

\* the references of the leaves, then of the internal nodes, whose mother
\* id is the key of node m, each in input order
RECURSIVE leafRefs(_, _)
leafRefs(m, i) ==
  IF i > Len(leaves) THEN <<>>
  ELSE (IF leaves[i].mother = Tail(nodes[m].id) THEN <<Ref(TRUE, i)>> ELSE <<>>)
       \o leafRefs(m, i + 1)

RECURSIVE nodeRefs(_, _)
nodeRefs(m, n) ==
  IF n > Len(nodes) THEN <<>>
  ELSE (IF nodes[n].mother = Tail(nodes[m].id) THEN <<Ref(FALSE, n)>> ELSE <<>>)
       \o nodeRefs(m, n + 1)

(***************************************************************************)
(* C1                                                                      *)
(***************************************************************************)
\* C1: once induce has linked the tree and propagated the spans, the i-th
\* leaf has the span [i] and the strID of every internal node is the
\* ascending list, without duplicates, of the positions of the leaves below.
C1_Spans ==
  pc = "rules" =>
    /\ \A i \in 1..Len(leaves) : leaves[i].strID = <<i - 1>>
    /\ \A n \in 1..Len(nodes) : nodes[n].strID = Ascending(dominated(n))

\* spans are propagated in a well-formed tree of three leaves where a node
\* has several daughters whose spans, put one after the other, are not
\* ascending, and the span of another node has a gap
C1_Witness ==
  /\ pc = "rules"
  /\ WellFormed
  /\ Len(leaves) = 3
  /\ \E n \in 1..Len(nodes) :
       /\ Len(nodes[n].daughters) >= 2
       /\ concat([d \in 1..Len(nodes[n].daughters) |->
                    deref(nodes[n].daughters[d], leaves, nodes).strID])
            # nodes[n].strID
  /\ \E n \in 1..Len(nodes) : nodes[n].strID = <<0, 2>>

(***************************************************************************)
(* C5                                                                      *)
(***************************************************************************)
NoTwoSameForm ==
  \A k, m \in 1..Len(rules) : rules[k].form = rules[m].form => k = m

\* the rule the running turn of the rule loops of induce builds
newrule ==
  IF idx <= Len(leaves) THEN Rule(leaves[idx], <<>>)
  ELSE LET node == nodes[nodes2[idx - Len(leaves)]]
       IN Rule(node, daughterNodes(node, leaves, nodes))

\* C5: rules never holds two rules of the same form; a turn of the rule
\* loops appends its rule at the end iff no stored rule has its form, and
\* no step removes or reorders a stored rule.
C5_Store ==
  /\ []NoTwoSameForm
  /\ [][/\ Len(rules') >= Len(rules)
        /\ SubSeq(rules', 1, Len(rules)) = rules
        /\ (pc = "rules" /\ idx' = idx + 1) =>
             IF \E k \in 1..Len(rules) : rules[k].form = newrule.form
             THEN rules' = rules
             ELSE rules' = Append(rules, newrule)]_vars

\* the rule loops have run on the second tree of a corpus: its leaf rule
\* was left out as a duplicate of the first stored rule, its last node rule
\* was appended at the end, after a rule that only the first tree gave
C5_Witness ==
  /\ pc = "rules"
  /\ count = 1
  /\ idx > Len(leaves) + Len(nodes2)
  /\ Len(leaves) >= 1
  /\ Len(nodes2) >= 1
  /\ Len(rules) >= 3
  /\ rules[1].form = Rule(leaves[1], <<>>).form
  /\ LET last == nodes[nodes2[Len(nodes2)]]
     IN rules[Len(rules)].form = Rule(last, daughterNodes(last, leaves, nodes)).form
  /\ \E k \in 2..Len(rules) :
       \A n \in 1..Len(nodes2) :
         rules[k].form # Rule(nodes[nodes2[n]],
                              daughterNodes(nodes[nodes2[n]], leaves, nodes)).form

(***************************************************************************)
(* C6                                                                      *)
(***************************************************************************)
\* C6: while induce runs on the tree it has just induced from, every rule
\* it builds has a form that is stored already: rules does not change.
C6_Reinduce == [][again => rules' = rules]_vars

\* the same tree, with leaves and internal nodes, was induced from twice
C6_Witness ==
  /\ again
  /\ pc = "complete"
  /\ count = 2
  /\ Len(rules) >= 3

(***************************************************************************)
(* C7                                                                      *)
(***************************************************************************)
\* no node left in nodesval can ever be resolved
Stuck ==
  /\ nodesval # <<>>
  /\ \A k \in 1..Len(nodesval) :
       ~allDaughtersHaveStrID(nodes[nodesval[k]], leaves, nodes)

\* C7 as stated: when span propagation cannot reach a fixpoint, the scan,
\* having gone through nodesval without resolving a node, stops and fails
\* with UnresolvableTree instead of scanning again.
C7_AsStated ==
  [][(pc = "scan" /\ idx > Len(nodesval) /\ Stuck) => pc' = "UnresolvableTree"]_vars

(***************************************************************************)
(* C8                                                                      *)
(***************************************************************************)
\* C8 as stated: a tree with a mother id that resolves to no node gives no
\* rule and the corpus loop goes on: the program ends only after
\* "induction complete", with every tree of the corpus handed to induce.
C8_AsStated ==
  /\ pc # "KeyError"
  /\ pc = "complete" => count = ntrees

(***************************************************************************)
(* C9                                                                      *)
(***************************************************************************)
\* the daughters lists after linking
DaughtersLinked ==
  pc \in {"scan", "rules"} =>
    \A m \in 1..Len(nodes) : nodes[m].daughters = leafRefs(m, 1) \o nodeRefs(m, 1)

\* C9 as stated: linking appends every node whose mother id is not "0" to
\* the daughters of its mother once, leaves first in input order, then the
\* internal nodes; a node whose mother id is "0", a leaf too, is appended
\* to no daughters list and makes nothing fail.
C9_AsStated ==
  /\ DaughtersLinked
  /\ pc = "KeyError" => error # << <<"0">> >>

(***************************************************************************)
(* C10                                                                     *)
(***************************************************************************)
\* the place of node n in nodes2
placeIn2(n) == CHOOSE k \in 1..Len(nodes2) : nodes2[k] = n

\* C10: on a well-formed tree the repeated scan ends with nodesval empty,
\* and nodes2 then holds every internal node once, each after all of its
\* internal daughters.
C10_Scan ==
  /\ [](pc = "rules" /\ WellFormed =>
          /\ nodesval = <<>>
          /\ Len(nodes2) = Len(nodes)
          /\ \A n \in 1..Len(nodes) : \E k \in 1..Len(nodes2) : nodes2[k] = n
          /\ \A n \in 1..Len(nodes) :
               \A d \in 1..Len(nodes[n].daughters) :
                 ~nodes[n].daughters[d].leaf =>
                   placeIn2(nodes[n].daughters[d].ix) < placeIn2(n))
  /\ (pc = "scan" /\ WellFormed) ~> (pc = "rules")

\* the scan of a well-formed tree went past a node it had skipped after a
\* removal, and ended
C10_Witness ==
  /\ pc = "rules"
  /\ WellFormed
  /\ Len(nodes) = 2
  /\ nodes2 = <<2, 1>>
  /\ \E d \in 1..Len(nodes[1].daughters) : nodes[1].daughters[d] = Ref(FALSE, 2)

\* the scan loop always takes its next step
FairSpec == Init /\ [][Next]_vars /\ WF_vars(ScanNode) /\ WF_vars(ScanWhile)

====
